---- MODULE Spec2Model ----
(***************************************************************************)
(* A model of src/blockchain.py: the Blockchain class (chain, pending      *)
(* transactions, neighbour set, proof of work, chain validation, longest   *)
(* chain consensus) and the Flask handlers that drive it.                  *)
(*                                                                         *)
(* Python values that may be compared with one another although they have  *)
(* different types (None, an int, a hex digest) are tagged tuples, so that *)
(* equality between them is decided by the tag.                            *)
(***************************************************************************)
EXTENDS Integers, Sequences, FiniteSets, TLC

\* ------------------------------------------------------------------ bounds
\* mine is not offered once the local chain has MaxChain blocks; a neighbour
\* offers chains of at most MaxChain blocks.
MaxChain == 3
\* /transactions/new is not offered once the pool holds MaxPool transactions.
MaxPool == 2
\* the largest last_proof handed to proof_of_work on its own
MaxLastProof == 40
\* the largest proof handed to new_block on its own
MaxProofArg == 2
\* the largest proof written into a block of a chain handed to valid_chain
MaxTamperProof == 9
\* the number of requests the threaded server is given, one thread each
MaxThreads == 3

\* ------------------------------------------------------- program constants
GenesisProof == 100
RewardAmount == 1

NODE_IDENTIFIER == "self"

VARIABLES
    chain,                  \* self.chain
    current_transactions,   \* self.current_transactions
    nodes,                  \* self.nodes
    pc,                     \* "idle", or "scan" while resolve_conflicts loops
    todo,                   \* neighbours the for loop has not visited yet
    max_length,             \* local of resolve_conflicts
    new_chain,              \* local of resolve_conflicts
    promised,               \* what add_transaction returned, per pool entry
    seen,                   \* the responses of the running/last scan, in order
    last,                   \* the last handler that returned, and what it saw
    heap,                   \* the list objects, by identity (threaded model)
    threads,                \* the requests in progress (threaded model)
    arg,                    \* the arguments of a function run on its own
    res                     \* its progress and result

vars == <<chain, current_transactions, nodes, pc, todo, max_length,
          new_chain, promised, seen, last, heap, threads, arg, res>>

\* the variables that only the threaded model and the single-function models use
aux == <<heap, threads, arg, res>>

\* ----------------------------------------------------------- Python values
None == <<"None">>
PyInt(n) == <<"int", n>>
\* bool(v) for the values previous_hash can take
Truthy(v) == v # None /\ v # PyInt(0) /\ v # <<"str", "">>

Last(s) == s[Len(s)]

\* ------------------------------------------------------------------ hashing
\* json.dumps(block, sort_keys=True) lists the fields in the order index,
\* previous_hash, proof, timestamp, transactions; SHA-256 of that text is
\* taken to be collision free, so the digest is the serialisation itself.
Hash(block) ==
    <<"sha256", block.index, block.previous_hash, block.proof,
      block.timestamp, block.transactions>>

\* str(n) for n >= 0, as its decimal digits
RECURSIVE Str(_)
Str(n) == IF n < 10 THEN <<n>> ELSE Append(Str(n \div 10), n % 10)

\* A small stand-in for SHA-256 over a digit string: the state is mixed with
\* every character, so the result depends on the text and not on the number
\* it denotes ("03" and "3" differ).
RECURSIVE Digest(_, _)
Digest(h, s) ==
    IF s = <<>> THEN h ELSE Digest((h * 5 + Head(s) + 1) % 7, Tail(s))

\* guess_hash[:4] == "0000" of sha256(f'{last_proof}{proof}')
valid_proof(last_proof, proof) ==
    Digest(2, Str(last_proof) \o Str(proof)) = 0

RECURSIVE proof_of_work_from(_, _)
proof_of_work_from(last_proof, proof) ==
    IF valid_proof(last_proof, proof)
    THEN proof
    ELSE proof_of_work_from(last_proof, proof + 1)

\* a search that steps once more after the test succeeded
proof_of_work_overshoots(last_proof) == proof_of_work_from(last_proof, 0) + 1

proof_of_work(last_proof) == proof_of_work_from(last_proof, 0)

\* a search that tries every other candidate only
next_proof_skips(proof) == proof + 2

\* proof += 1
next_proof(proof) == proof + 1

\* ------------------------------------------------------------------- ledger
\* time() when a block is added to ch: the clock is read in whole units and
\* has advanced by one since the newest block of ch was stamped
time(ch) == IF ch = <<>> THEN 0 ELSE Last(ch).timestamp + 1

last_block(ch) == Last(ch)

\* new_block without the reset of current_transactions
new_block_keeps_pool(ch, pool, t, proof, previous_hash) ==
    LET block == [index |-> Len(ch) + 1,
                  timestamp |-> t,
                  transactions |-> pool,
                  proof |-> proof,
                  previous_hash |-> IF Truthy(previous_hash)
                                    THEN previous_hash
                                    ELSE Hash(Last(ch))]
    IN [chain |-> Append(ch, block), current_transactions |-> pool,
        block |-> block]

\* new_block on the ledger (ch, pool) at clock reading t: the new ledger and
\* the block returned
new_block(ch, pool, t, proof, previous_hash) ==
    LET block == [index |-> Len(ch) + 1,
                  timestamp |-> t,
                  transactions |-> pool,
                  proof |-> proof,
                  previous_hash |-> IF Truthy(previous_hash)
                                    THEN previous_hash
                                    ELSE Hash(last_block(ch))]
    IN [chain |-> Append(ch, block), current_transactions |-> <<>>,
        block |-> block]

Transaction(sender, recipient, amount) ==
    [sender |-> sender, recipient |-> recipient, amount |-> amount]

\* add_transaction on the ledger (ch, pool): the new pool and the return value
add_transaction(ch, pool, sender, recipient, amount) ==
    [current_transactions |->
         Append(pool, Transaction(sender, recipient, amount)),
     ret |-> last_block(ch).index + 1]

\* the while loop of valid_chain, from current_index on (1-based position
\* current_index + 1), with last_block the block before it
RECURSIVE valid_chain_from(_, _, _)
valid_chain_from(ch, lastb, current_index) ==
    IF current_index < Len(ch)
    THEN LET block == ch[current_index + 1]
         IN IF block.previous_hash # Hash(lastb)
            THEN FALSE
            ELSE IF ~valid_proof(lastb.proof, block.proof)
                 THEN FALSE
                 ELSE valid_chain_from(ch, block, current_index + 1)
    ELSE TRUE

\* chain[0] raises IndexError on an empty list
valid_chain_raises(ch) == Len(ch) = 0

\* a check of the proofs alone, without the comparison of the hashes
valid_chain_proofs_only(ch) ==
    \A i \in 2..Len(ch) : valid_proof(ch[i - 1].proof, ch[i].proof)

valid_chain(ch) == valid_chain_from(ch, ch[1], 1)

\* mine() run on a ledger whose node identifier is id
mine_on(ch, pool, t, id) ==
    LET last_proof == last_block(ch).proof
        proof == proof_of_work(last_proof)
        a == add_transaction(ch, pool, "0", id, RewardAmount)
    IN new_block(ch, a.current_transactions, t, proof, None)

\* a constructor that passes no proof for the first block
Genesis_without_proof(t) == new_block(<<>>, <<>>, t, 0, PyInt(1))

\* Blockchain(): the ledger after __init__
Genesis(t) == new_block(<<>>, <<>>, t, GenesisProof, PyInt(1))

\* ------------------------------------------------------------------- inputs
UserTxs == {Transaction("a", "b", 1), Transaction("b", "a", 5)}
Required == {"sender", "recipient", "amount"}
\* the JSON body of POST /transactions/new: the keys it has, and their values
Requests ==
    {[keys |-> ks, values |-> t] :
        ks \in {Required} \cup {Required \ {k} : k \in Required},
        t \in UserTxs}

\* urlparse(address).netloc
Addresses == {"http://n1:5000", "http://n1:5000/chain", "http://n2:5000"}
netloc(address) ==
    IF address = "http://n2:5000" THEN "n2:5000" ELSE "n1:5000"
NodeLists ==
    {<<>>} \cup {<<a>> : a \in Addresses}
           \cup {<<a, b>> : a \in Addresses, b \in Addresses}

\* ------------------------------------------------- what a neighbour answers
\* k more blocks mined on the ledger base by the node whose identifier is id,
\* each from a pool holding one user transaction
RECURSIVE Grown(_, _, _)
Grown(base, id, k) ==
    IF k = 0
    THEN base
    ELSE LET c == Grown(base, id, k - 1)
         IN mine_on(c, <<Transaction("a", "b", 1)>>, time(c), id).chain

\* The chains a neighbour running this program can hold: grown from its own
\* genesis block (created at another time than ours), or from our chain ch.
HonestChains(id, ch) ==
    {Grown(Genesis(1).chain, id, k) : k \in 0..(MaxChain - 1)}
        \cup {Grown(ch, id, k) : k \in 0..(MaxChain - Len(ch))}

\* The last block of c altered in one field
Defects == {"index", "previous_hash", "proof"}
Damaged(c, d) ==
    CASE d = "index" -> [c EXCEPT ![Len(c)].index = @ + 1]
      [] d = "previous_hash" -> [c EXCEPT ![Len(c)].previous_hash = PyInt(1)]
      [] d = "proof" -> [c EXCEPT ![Len(c)].proof = @ + 1]

Answer(kind, length, ch) == [kind |-> kind, length |-> length, chain |-> ch]

\* What requests.get(f'http://{node}/chain') can give: no connection (it
\* raises), a status other than 200, a 200 whose body is not the expected
\* JSON, or a 200 with 'length' and 'chain'. A neighbour running this program
\* reports the true length of a chain it can hold; another one may report a
\* length that is not the chain's, or send a chain with an altered block or
\* no block.
Responses(node, ch) ==
    {Answer("unreachable", 0, <<>>), Answer("status", 0, <<>>),
     Answer("malformed", 0, <<>>)}
    \cup {Answer("ok", Len(c), c) : c \in HonestChains(node, ch)}
    \cup {Answer("ok", l, <<>>) : l \in {0, MaxChain + 1}}
    \cup {Answer("ok", MaxChain + 1, Grown(Genesis(1).chain, node, 0))}
    \cup {Answer("ok", 1, c) : c \in HonestChains(node, ch)}
    \cup {Answer("ok", Len(c), Damaged(c, d)) :
            c \in {h \in HonestChains(node, ch) : Len(h) > 1},
            d \in Defects}

NoCall ==
    [op |-> "init", status |-> 0, index |-> 0, replaced |-> FALSE,
     chain |-> <<>>, pool |-> <<>>, nodes |-> {}, promised |-> <<>>,
     keys |-> {}]

NoAux ==
    /\ heap = <<>>
    /\ threads = <<>>
    /\ arg = <<>>
    /\ res = <<>>

\* --------------------------------------------------------------------- Init
\* blockchain = Blockchain(), and no request made yet
FreshLedger ==
    LET g == Genesis(time(<<>>))
    IN /\ chain = g.chain
       /\ current_transactions = g.current_transactions
       /\ nodes = {}
       /\ pc = "idle"
       /\ todo = {}
       /\ max_length = 0
       /\ new_chain = <<>>
       /\ promised = <<>>
       /\ seen = <<>>
       /\ last = NoCall

Init == FreshLedger /\ NoAux

Returned(op, status, index, replaced) ==
    [op |-> op, status |-> status, index |-> index, replaced |-> replaced,
     chain |-> chain, pool |-> current_transactions, nodes |-> nodes,
     promised |-> promised, keys |-> {}]

\* a test that only refuses a body with none of the required keys
MissingValues_none(values) == values.keys \cap Required = {}

\* if not all(k in values for k in required)
MissingValues(values) == ~(Required \subseteq values.keys)

\* POST /transactions/new, offered while the pool holds fewer than limit
NewTransactions(limit) ==
    /\ pc = "idle"
    /\ Len(current_transactions) < limit
    /\ \E values \in Requests :
          IF MissingValues(values)
          THEN /\ last' = [Returned("new_transactions", 400, 0, FALSE)
                              EXCEPT !.keys = values.keys]
               /\ UNCHANGED <<current_transactions, promised>>
          ELSE LET a == add_transaction(chain, current_transactions,
                                        values.values.sender,
                                        values.values.recipient,
                                        values.values.amount)
               IN /\ current_transactions' = a.current_transactions
                  /\ promised' = Append(promised, a.ret)
                  /\ last' = [Returned("new_transactions", 201, a.ret,
                                       FALSE) EXCEPT !.keys = values.keys]
    /\ seen' = <<>>
    /\ UNCHANGED <<chain, nodes, pc, todo, max_length, new_chain, aux>>

\* GET /mine
Mine ==
    /\ pc = "idle"
    /\ Len(chain) < MaxChain
    /\ LET a == add_transaction(chain, current_transactions, "0",
                                NODE_IDENTIFIER, RewardAmount)
           m == mine_on(chain, current_transactions, time(chain),
                        NODE_IDENTIFIER)
       IN /\ chain' = m.chain
          /\ current_transactions' = m.current_transactions
          /\ promised' = <<>>
          /\ last' = [Returned("mine", 200, m.block.index, FALSE)
                         EXCEPT !.promised = Append(promised, a.ret)]
    /\ seen' = <<>>
    /\ UNCHANGED <<nodes, pc, todo, max_length, new_chain, aux>>

\* POST /nodes/resister
ResisterNewNode ==
    /\ pc = "idle"
    /\ \E new_nodes \in NodeLists \cup {None} :
          IF new_nodes = None
          THEN /\ last' = Returned("resister_new_node", 400, 0, FALSE)
               /\ UNCHANGED nodes
          ELSE /\ nodes' = nodes \cup
                     {netloc(new_nodes[i]) : i \in 1..Len(new_nodes)}
               /\ last' = Returned("resister_new_node", 201, 0, FALSE)
    /\ seen' = <<>>
    /\ UNCHANGED <<chain, current_transactions, pc, todo, max_length,
                   new_chain, promised, aux>>

\* GET /nodes/resolve, up to the for loop of resolve_conflicts
ResolveBegin ==
    /\ pc = "idle"
    /\ pc' = "scan"
    /\ todo' = nodes
    /\ new_chain' = <<>>          \* None; an empty list is never assigned
    /\ max_length' = Len(chain)
    /\ seen' = <<>>
    /\ last' = [NoCall EXCEPT !.op = "consensus"]
    /\ UNCHANGED <<chain, current_transactions, nodes, promised, aux>>

\* does the loop body raise on response r?
VisitRaises(r, maxlen) ==
    \/ r.kind \in {"unreachable", "malformed"}
    \/ r.kind = "ok" /\ r.length > maxlen /\ valid_chain_raises(r.chain)

\* does the loop body take the chain of response r as new_chain?
VisitTakes(r, maxlen) ==
    /\ r.kind = "ok"
    /\ r.length > maxlen
    /\ ~valid_chain_raises(r.chain)
    /\ valid_chain(r.chain)

\* one iteration of the for loop: the request to one neighbour and its answer
ResolveVisit(record) ==
    /\ pc = "scan"
    /\ \E node \in todo : \E r \in Responses(node, chain) :
          /\ seen' = IF record
                     THEN Append(seen, [node |-> node, response |-> r])
                     ELSE seen
          /\ IF VisitRaises(r, max_length)
             THEN /\ pc' = "idle"
                  /\ todo' = {}
                  /\ max_length' = 0
                  /\ new_chain' = <<>>
                  /\ last' = Returned("consensus", 500, 0, FALSE)
             ELSE /\ pc' = "scan"
                  /\ todo' = todo \ {node}
                  /\ max_length' = IF VisitTakes(r, max_length)
                                   THEN r.length ELSE max_length
                  /\ new_chain' = IF VisitTakes(r, max_length)
                                  THEN r.chain ELSE new_chain
                  /\ UNCHANGED last
    /\ UNCHANGED <<chain, current_transactions, nodes, promised, aux>>

\* after the loop: the replacement, and the handler's response
ResolveEnd ==
    /\ pc = "scan"
    /\ todo = {}
    /\ IF new_chain # <<>>
       THEN /\ chain' = new_chain
            /\ last' = Returned("consensus", 200, 0, TRUE)
       ELSE /\ UNCHANGED chain
            /\ last' = Returned("consensus", 200, 0, FALSE)
    /\ pc' = "idle"
    /\ max_length' = 0
    /\ new_chain' = <<>>
    /\ UNCHANGED <<current_transactions, nodes, promised, todo, seen, aux>>

Next ==
    \/ NewTransactions(MaxPool)
    \/ Mine
    \/ ResisterNewNode
    \/ ResolveBegin
    \/ ResolveVisit(FALSE)
    \/ ResolveEnd

Spec == Init /\ [][Next]_vars

\* The same program with the answers of every scan kept in seen, and a pool
\* of at most one transaction.
NextConsensus ==
    \/ NewTransactions(1)
    \/ Mine
    \/ ResisterNewNode
    \/ ResolveBegin
    \/ ResolveVisit(TRUE)
    \/ ResolveEnd

SpecConsensus == Init /\ [][NextConsensus]_vars

\* ------------------------------------------------------------------- claims
Reward == Transaction("0", NODE_IDENTIFIER, RewardAmount)

\* the transactions in the blocks of ch
Committed(ch) ==
    {ch[k].transactions[j] :
        <<k, j>> \in {<<k, j>> \in (1..Len(ch)) \X (1..(MaxPool + 1)) :
                        j <= Len(ch[k].transactions)}}
Pending(pool) == {pool[i] : i \in 1..Len(pool)}

\* the handler whose return produced this state
Returned200(op) == last.op = op /\ last.status = 200
ScanOver == last.op = "consensus" /\ last.status # 0
ScanRaisedAt(i) == ScanOver /\ last.status = 500 /\ i = Len(seen)

\* C1: in every state the local chain is not empty and passes valid_chain:
\* every block after the first carries the hash of the block before it (I2)
\* and a proof that valid_proof accepts against the proof before it (I3).
C1_ChainValid ==
    /\ Len(chain) > 0
    /\ valid_chain(chain)
    /\ \A i \in 2..Len(chain) :
          /\ chain[i].previous_hash = Hash(chain[i - 1])
          /\ valid_proof(chain[i - 1].proof, chain[i].proof)

\* C1 witness: a block mined on top of a two-block chain that a scan adopted
\* from a neighbour (whose genesis block carries the neighbour's start time)
C1_Witness ==
    /\ Returned200("mine")
    /\ Len(chain) = 3
    /\ chain[1].timestamp = 1
    /\ chain[3].transactions # <<Reward>>

\* C2 (I5): in every state the block at position k of the chain has index k.
C2_IndicesContiguous ==
    \A k \in 1..Len(chain) : chain[k].index = k

\* C3 (I1): in every state the chain is not empty and its first block is the
\* block the constructor created.
C3_GenesisImmutable ==
    /\ Len(chain) > 0
    /\ chain[1] = Genesis(time(<<>>)).block

\* C8: right after mine the new block holds the pool as it was, in order,
\* followed by the reward transaction, the pool is empty, and the chain is the
\* old chain with that block appended.
C8_MineMovesPool ==
    Returned200("mine") =>
        /\ Len(chain) = Len(last.chain) + 1
        /\ chain = Append(last.chain, Last(chain))
        /\ Last(chain).transactions = last.pool \o <<Reward>>
        /\ current_transactions = <<>>

\* C8 witness: mine found two different transactions in the pool
C8_Witness ==
    /\ Returned200("mine")
    /\ Len(last.pool) = 2
    /\ last.pool[1] # last.pool[2]

\* C9 (I4), where the claim places it: once resolve_conflicts has replaced the
\* chain, no transaction of the pool is in a block of the chain.
C9_PoolNotCommitted ==
    (Returned200("consensus") /\ last.replaced) =>
        Pending(current_transactions) \cap Committed(chain) = {}

\* C10: the block that mine creates has the index that add_transaction
\* returned for each transaction in it.
C10_LandsInPromisedBlock ==
    Returned200("mine") =>
        \A i \in 1..Len(last.promised) :
            last.promised[i] = Last(chain).index


\* ---- the scan of resolve_conflicts, over the answers kept in seen
AnswerOf(i) == seen[i].response
\* a usable answer whose chain valid_chain accepts
ValidOffer(i) ==
    /\ AnswerOf(i).kind = "ok"
    /\ Len(AnswerOf(i).chain) > 0
    /\ valid_chain(AnswerOf(i).chain)
\* a usable answer whose chain has no block, a broken link or a failing proof
InvalidOffer(i) ==
    /\ AnswerOf(i).kind = "ok"
    /\ \/ Len(AnswerOf(i).chain) = 0
       \/ ~valid_chain(AnswerOf(i).chain)
NoAnswer(i) == AnswerOf(i).kind \in {"unreachable", "malformed"}
Visited == 1..Len(seen)

\* C4: when resolve_conflicts reports replaced, the chain is that of a visited
\* neighbour, valid, longer than the chain was before the call, no visited
\* neighbour offered a longer valid chain, and none offered a valid chain of
\* the same length earlier in the scan.
C4_AdoptsLongestFirstSeen ==
    (Returned200("consensus") /\ last.replaced) =>
        \E i \in Visited :
            /\ ValidOffer(i)
            /\ chain = AnswerOf(i).chain
            /\ Len(chain) > Len(last.chain)
            /\ \A j \in Visited :
                  ValidOffer(j) =>
                      /\ Len(AnswerOf(j).chain) <= Len(chain)
                      /\ (Len(AnswerOf(j).chain) = Len(chain) /\ j < i)
                             => AnswerOf(j).chain = chain

\* C5: when no visited neighbour offered a valid chain longer than the local
\* one, resolve_conflicts returns False and chain, pool and neighbour set are
\* what they were.
C5_KeptWithoutLongerOffer ==
    (/\ ScanOver
     /\ \A i \in Visited :
           ~(ValidOffer(i) /\ Len(AnswerOf(i).chain) > Len(last.chain)))
    => /\ last.status = 200
       /\ ~last.replaced
       /\ chain = last.chain
       /\ current_transactions = last.pool
       /\ nodes = last.nodes

\* C6: a neighbour that cannot be reached or answers with malformed data does
\* not end the scan: the call returns its outcome, and a valid longer chain
\* that another neighbour offers with its true length is adopted.
C6_SilentPeerSkipped ==
    \A i \in Visited :
        (ScanOver /\ NoAnswer(i)) =>
            /\ ~ScanRaisedAt(i)
            /\ last.status = 200
            /\ (\E j \in Visited :
                   /\ ValidOffer(j)
                   /\ AnswerOf(j).length = Len(AnswerOf(j).chain)
                   /\ Len(AnswerOf(j).chain) > Len(last.chain))
                  => last.replaced

\* C7: a neighbour's invalid chain (no block, a broken link, a failing proof)
\* is not adopted and does not end the scan with an error.
C7_InvalidOfferRejected ==
    \A i \in Visited :
        (ScanOver /\ InvalidOffer(i)) =>
            /\ ~ScanRaisedAt(i)
            /\ chain # AnswerOf(i).chain
            /\ current_transactions = last.pool


\* C15: a freshly constructed Blockchain has exactly one block, with index 1,
\* previous_hash 1, proof 100 and no transactions; its pool of pending
\* transactions and its set of nodes are empty.
C15_FreshLedger ==
    last.op = "init" =>
        /\ Len(chain) = 1
        /\ chain[1].index = 1
        /\ chain[1].previous_hash = PyInt(1)
        /\ chain[1].proof = GenesisProof
        /\ chain[1].transactions = <<>>
        /\ current_transactions = <<>>
        /\ nodes = {}

\* the ledger right after construction, before any request
C15_Witness == last.op = "init" /\ pc = "idle" /\ promised = <<>>

\* C16: POST /transactions/new with a body that lacks sender, recipient or
\* amount answers 400 and changes neither the pool, nor the chain, nor the
\* set of nodes.
C16_IncompleteRejected ==
    (last.op = "new_transactions" /\ ~(Required \subseteq last.keys)) =>
        /\ last.status = 400
        /\ current_transactions = last.pool
        /\ chain = last.chain
        /\ nodes = last.nodes

\* a body without amount, sent to a ledger with a mined block, a pending
\* transaction and a registered node
C16_Witness ==
    /\ last.op = "new_transactions"
    /\ last.keys = Required \ {"amount"}
    /\ Len(last.chain) = 2
    /\ Len(last.pool) = 1
    /\ last.nodes # {}

\* C19: no handler leaves the chain shorter than it found it, and a
\* resolve_conflicts that returns True leaves it strictly longer, whatever
\* the neighbours answered.
C19_ChainNeverShrinks ==
    /\ last.status # 0 => Len(chain) >= Len(last.chain)
    /\ (Returned200("consensus") /\ last.replaced) =>
           Len(chain) > Len(last.chain)

\* ============================================================ proof_of_work
\* proof_of_work run on its own, one turn of its while loop at a time:
\* arg is last_proof, res the loop's position and the candidate proof.
ledger == <<chain, current_transactions, nodes, pc, todo, max_length,
            new_chain, promised, seen, last>>

LastProofs == 0..MaxLastProof \cup {GenesisProof}

InitProofOfWork ==
    /\ FreshLedger
    /\ heap = <<>>
    /\ threads = <<>>
    /\ arg \in {[last_proof |-> n] : n \in LastProofs}
    /\ res = [at |-> "while", proof |-> 0]

\* while self.valid_proof(last_proof, proof) is False: proof += 1
ProofOfWorkTurn ==
    /\ res.at = "while"
    /\ ~valid_proof(arg.last_proof, res.proof)
    /\ res' = [res EXCEPT !.proof = next_proof(@)]
    /\ UNCHANGED <<ledger, heap, threads, arg>>

\* return proof
ProofOfWorkReturn ==
    /\ res.at = "while"
    /\ valid_proof(arg.last_proof, res.proof)
    /\ res' = [res EXCEPT !.at = "return"]
    /\ UNCHANGED <<ledger, heap, threads, arg>>

NextProofOfWork == ProofOfWorkTurn \/ ProofOfWorkReturn

\* the loop is the only thing the call does, so it keeps running
SpecProofOfWork ==
    InitProofOfWork /\ [][NextProofOfWork]_vars /\ WF_vars(NextProofOfWork)

\* C14: proof_of_work(last_proof) returns, and what it returns is the
\* smallest proof >= 0 that valid_proof accepts for last_proof: every
\* smaller one is refused.
C14_SmallestProof ==
    /\ [](res.at = "return" =>
            /\ valid_proof(arg.last_proof, res.proof)
            /\ \A q \in 0..(res.proof - 1) : ~valid_proof(arg.last_proof, q)
            /\ res.proof = proof_of_work(arg.last_proof))
    /\ <>(res.at = "return")

\* the search for the block after the genesis block, which finds 2 after
\* refusing 0 and 1
C14_Witness ==
    /\ res.at = "return"
    /\ arg.last_proof = GenesisProof
    /\ res.proof > 1

\* ================================================================ new_block
\* new_block called on its own, on a ledger this program can hold: arg is
\* (proof, previous_hash), res the block returned.
Ledgers ==
    {[chain |-> Grown(Genesis(time(<<>>)).chain, NODE_IDENTIFIER, k),
      pool |-> pool] :
        k \in 0..(MaxChain - 2),
        pool \in {<<>>} \cup {<<t>> : t \in UserTxs}}

\* previous_hash: left out (None), or an int or a str
HashArgs == {None, PyInt(0), PyInt(1), <<"str", "">>, <<"str", "abc">>}

InitNewBlock ==
    /\ \E l \in Ledgers :
          /\ chain = l.chain
          /\ current_transactions = l.pool
    /\ nodes = {}
    /\ pc = "idle"
    /\ todo = {}
    /\ max_length = 0
    /\ new_chain = <<>>
    /\ promised = <<>>
    /\ seen = <<>>
    /\ last = NoCall
    /\ heap = <<>>
    /\ threads = <<>>
    /\ arg \in {[proof |-> p, previous_hash |-> h] :
                    p \in 0..MaxProofArg, h \in HashArgs}
    /\ res = <<>>

NewBlockCall ==
    /\ res = <<>>
    /\ LET n == new_block(chain, current_transactions, time(chain),
                          arg.proof, arg.previous_hash)
       IN /\ chain' = n.chain
          /\ current_transactions' = n.current_transactions
          /\ res' = [block |-> n.block]
    /\ UNCHANGED <<nodes, pc, todo, max_length, new_chain, promised, seen,
                   last, heap, threads, arg>>

NextNewBlock == NewBlockCall

SpecNewBlock == InitNewBlock /\ [][NextNewBlock]_vars

\* C18: the block new_block returns has index = the tip's position + 1, the
\* supplied proof, and as previous_hash exactly the supplied value whenever
\* one is supplied (0 and the empty string included), the hash of the tip
\* only when none is.
C18_StoresSuppliedHash ==
    res # <<>> =>
        /\ res.block.index = Len(chain)
        /\ res.block.proof = arg.proof
        /\ res.block.previous_hash =
               IF arg.previous_hash # None
               THEN arg.previous_hash
               ELSE Hash(chain[Len(chain) - 1])

\* ============================================================== valid_chain
\* valid_chain called on its own: arg is a chain this program can hold and
\* one change to one block of it, res what valid_chain says of the chain
\* before and after the change.
ChainArgs ==
    {Grown(Genesis(t).chain, id, k) :
        t \in {0, 1}, id \in {NODE_IDENTIFIER, "peer"}, k \in 1..(MaxChain - 1)}

\* the values the proof and the previous_hash of a block of c can be given
ProofValues == 0..MaxTamperProof
HashValues(c) ==
    {PyInt(0), PyInt(1), <<"str", "abc">>, Hash(Genesis(1).block)}
        \cup {Hash(c[i]) : i \in 1..Len(c)}

\* one field of one block of a chain, and its new value
Changes(field) ==
    UNION {{[chain |-> c, at |-> i, field |-> field, value |-> v] :
               i \in 1..Len(c),
               v \in IF field = "proof" THEN ProofValues ELSE HashValues(c)} :
           c \in ChainArgs}

Changed(a) == [a.chain EXCEPT ![a.at] = [@ EXCEPT ![a.field] = a.value]]

InitValidChain ==
    /\ FreshLedger
    /\ heap = <<>>
    /\ threads = <<>>
    /\ \/ arg \in Changes("proof")
       \/ arg \in Changes("previous_hash")
    /\ res = <<>>

ValidChainCall ==
    /\ res = <<>>
    /\ res' = [before |-> valid_chain(arg.chain),
               after |-> valid_chain(Changed(arg))]
    /\ UNCHANGED <<ledger, heap, threads, arg>>

NextValidChain == ValidChainCall

SpecValidChain == InitValidChain /\ [][NextValidChain]_vars

\* the change gives the field another value than it had
RealChange == arg.chain[arg.at][arg.field] # arg.value

\* the last block's proof is replaced by one that valid_proof accepts too
OtherValidLastProof ==
    /\ arg.at = Len(arg.chain)
    /\ arg.field = "proof"
    /\ valid_proof(arg.chain[arg.at - 1].proof, arg.value)

\* C13 as stated: for every chain of two or more blocks that valid_chain
\* accepts, giving the proof or the previous_hash of any one block (the
\* genesis block and the last block included) any other value makes
\* valid_chain answer False.
C13_TamperDetected ==
    (res # <<>> /\ res.before /\ Len(arg.chain) >= 2 /\ RealChange) =>
        ~res.after

\* C13 as amended: the same, except that the proof of the last block may be
\* replaced by another proof that valid_proof accepts for the block before
\* it; every other change makes valid_chain answer False.
C13_TamperDetectedButLastProof ==
    (res # <<>> /\ res.before /\ Len(arg.chain) >= 2 /\ RealChange
        /\ ~OtherValidLastProof) =>
        ~res.after

\* the genesis block's previous_hash changed in a chain of three blocks
C13_Witness ==
    /\ res # <<>>
    /\ res.before
    /\ Len(arg.chain) = 3
    /\ arg.at = 1
    /\ arg.field = "previous_hash"
    /\ RealChange
    /\ ~res.after

\* ========================================================= threaded server
\* app.run serves every request on a thread of its own, and the handlers
\* share blockchain without a lock. Here a handler runs one read or write of
\* the shared object at a time. Lists are objects with an identity: heap
\* holds their contents, and current_transactions and a block's
\* 'transactions' hold a reference into heap.
Threads == 1..MaxThreads

NoTx == Transaction("", "", 0)

\* a thread with no request, and the local variables of a handler
Idle ==
    [op |-> "idle", at |-> "idle", last_proof |-> 0, proof |-> 0,
     list |-> 0, tx |-> NoTx, ret |-> 0, index |-> 0, timestamp |-> 0,
     transactions |-> 0, previous_hash |-> None, max_length |-> 0,
     new_chain |-> <<>>, todo |-> {}, size |-> 0]

\* a block with the contents of its list of transactions
Deref(hp, block) == [block EXCEPT !.transactions = hp[@]]
Contents(hp, ch) == [i \in 1..Len(ch) |-> Deref(hp, ch[i])]

\* Blockchain() on the heap: list 1 went into the genesis block, list 2 is
\* the pool new_block left
InitThreads ==
    LET g == Genesis(time(<<>>))
    IN /\ chain = <<[g.block EXCEPT !.transactions = 1]>>
       /\ heap = <<g.block.transactions, g.current_transactions>>
       /\ current_transactions = 2
       /\ nodes = {}
       /\ pc = "idle"
       /\ todo = {}
       /\ max_length = 0
       /\ new_chain = <<>>
       /\ promised = <<>>
       /\ seen = <<>>
       /\ last = NoCall
       /\ threads = [t \in Threads |-> Idle]
       /\ arg = <<>>
       /\ res = <<>>

\* what the steps of the threads never touch
fixed == <<pc, todo, max_length, new_chain, promised, seen, last, arg, res>>

Go(t, locals) == threads' = [threads EXCEPT ![t] = locals]
At(t, label) == threads[t].at = label
Busy(t) == threads[t].at \notin {"idle", "done"}

\* the first step of each handler
Entry(op) ==
    CASE op = "mine" -> "last_proof"
      [] op = "new_transactions" -> "add_load"
      [] op = "consensus" -> "resolve"
      [] op = "resister_new_node" -> "register"

\* A request arrives and gets a thread. how tells which requests the server
\* has in progress together: "threaded" any (app.run's default), "serial"
\* one at a time.
Begin(t, ops, how) ==
    /\ At(t, "idle")
    /\ how = "serial" => \A u \in Threads : ~Busy(u)
    /\ \E op \in ops :
          Go(t, [Idle EXCEPT !.op = op, !.at = Entry(op),
                             !.tx = IF op = "new_transactions"
                                    THEN Transaction("a", "b", t)
                                    ELSE NoTx])
    /\ UNCHANGED <<chain, current_transactions, nodes, heap, fixed>>

\* mine: last_proof = blockchain.last_block['proof'], then the search, which
\* touches nothing shared
MineSolves(t) ==
    /\ At(t, "last_proof")
    /\ LET last_proof == last_block(chain).proof
       IN Go(t, [threads[t] EXCEPT
                    !.last_proof = last_proof,
                    !.proof = proof_of_work(last_proof),
                    !.tx = Transaction("0", NODE_IDENTIFIER, RewardAmount),
                    !.at = "add_load"])
    /\ UNCHANGED <<chain, current_transactions, nodes, heap, fixed>>

\* add_transaction: self.current_transactions is looked up ...
AddLoads(t) ==
    /\ At(t, "add_load")
    /\ Go(t, [threads[t] EXCEPT !.list = current_transactions,
                                !.at = "add_append"])
    /\ UNCHANGED <<chain, current_transactions, nodes, heap, fixed>>

\* ... and the transaction appended to the list found
AddAppends(t) ==
    /\ At(t, "add_append")
    /\ heap' = [heap EXCEPT ![threads[t].list] = Append(@, threads[t].tx)]
    /\ Go(t, [threads[t] EXCEPT !.at = "add_return"])
    /\ UNCHANGED <<chain, current_transactions, nodes, fixed>>

\* return self.last_block['index'] + 1; mine goes on to new_block
AddReturns(t) ==
    /\ At(t, "add_return")
    /\ Go(t, [threads[t] EXCEPT
                  !.ret = last_block(chain).index + 1,
                  !.at = IF threads[t].op = "mine" THEN "index" ELSE "done"])
    /\ UNCHANGED <<chain, current_transactions, nodes, heap, fixed>>

\* new_block, the dict display item by item: 'index' and 'timestamp'
NewBlockIndex(t) ==
    /\ At(t, "index")
    /\ Go(t, [threads[t] EXCEPT !.index = Len(chain) + 1,
                                !.timestamp = time(chain),
                                !.at = "transactions"])
    /\ UNCHANGED <<chain, current_transactions, nodes, heap, fixed>>

\* 'transactions': self.current_transactions, the list itself
NewBlockTransactions(t) ==
    /\ At(t, "transactions")
    /\ Go(t, [threads[t] EXCEPT !.transactions = current_transactions,
                                !.at = "previous_hash"])
    /\ UNCHANGED <<chain, current_transactions, nodes, heap, fixed>>

\* 'previous_hash': previous_hash or self.hash(self.chain[-1]), with
\* previous_hash None
NewBlockPreviousHash(t) ==
    /\ At(t, "previous_hash")
    /\ Go(t, [threads[t] EXCEPT
                  !.previous_hash = Hash(Deref(heap, last_block(chain))),
                  !.at = "reset"])
    /\ UNCHANGED <<chain, current_transactions, nodes, heap, fixed>>

\* a reset that empties the list in place: self.current_transactions.clear()
NewBlockResets_in_place(t) ==
    /\ At(t, "reset")
    /\ heap' = [heap EXCEPT ![current_transactions] = <<>>]
    /\ Go(t, [threads[t] EXCEPT !.at = "append"])
    /\ UNCHANGED <<chain, current_transactions, nodes, fixed>>

\* self.current_transactions = []: a new list
NewBlockResets(t) ==
    /\ At(t, "reset")
    /\ heap' = Append(heap, <<>>)
    /\ current_transactions' = Len(heap) + 1
    /\ Go(t, [threads[t] EXCEPT !.at = "append"])
    /\ UNCHANGED <<chain, nodes, fixed>>

\* self.chain.append(block), and the response
NewBlockAppends(t) ==
    /\ At(t, "append")
    /\ chain' = Append(chain, [index |-> threads[t].index,
                               timestamp |-> threads[t].timestamp,
                               transactions |-> threads[t].transactions,
                               proof |-> threads[t].proof,
                               previous_hash |-> threads[t].previous_hash])
    /\ Go(t, [threads[t] EXCEPT !.at = "done"])
    /\ UNCHANGED <<current_transactions, nodes, heap, fixed>>

\* resister_new_node with one address in the body
Registers(t) ==
    /\ At(t, "register")
    /\ \E a \in Addresses : nodes' = nodes \cup {netloc(a)}
    /\ Go(t, [threads[t] EXCEPT !.at = "done"])
    /\ UNCHANGED <<chain, current_transactions, heap, fixed>>

\* what a neighbour running this program answers to GET /chain: a chain
\* grown from its own genesis block, with its true length
ThreadResponses ==
    {Answer("ok", Len(c), c) :
        c \in {Grown(Genesis(1).chain, "peer", k) : k \in 1..(MaxChain - 1)}}

\* resolve_conflicts: neighbours = self.nodes (the set itself, whose size the
\* for loop remembers), new_chain = None, max_length = len(self.chain)
Resolves(t) ==
    /\ At(t, "resolve")
    /\ Go(t, [threads[t] EXCEPT !.todo = nodes,
                                !.size = Cardinality(nodes),
                                !.new_chain = <<>>,
                                !.max_length = Len(chain),
                                !.at = "visit"])
    /\ UNCHANGED <<chain, current_transactions, nodes, heap, fixed>>

\* the for loop asks for the next neighbour: a set that has grown since the
\* loop began raises RuntimeError
ScanRaises(t) ==
    /\ At(t, "visit")
    /\ Cardinality(nodes) # threads[t].size
    /\ Go(t, [threads[t] EXCEPT !.at = "done", !.ret = 500])
    /\ UNCHANGED <<chain, current_transactions, nodes, heap, fixed>>

\* one turn of the for loop
Visits(t) ==
    /\ At(t, "visit")
    /\ Cardinality(nodes) = threads[t].size
    /\ \E node \in threads[t].todo : \E r \in ThreadResponses :
          Go(t, [threads[t] EXCEPT
                    !.todo = @ \ {node},
                    !.max_length = IF VisitTakes(r, @) THEN r.length ELSE @,
                    !.new_chain = IF VisitTakes(r, threads[t].max_length)
                                  THEN r.chain ELSE @])
    /\ UNCHANGED <<chain, current_transactions, nodes, heap, fixed>>

\* json() made new lists for the blocks of ch: their references, from n + 1
Decoded(ch, n) ==
    [i \in 1..Len(ch) |-> [ch[i] EXCEPT !.transactions = n + i]]

\* if new_chain: self.chain = new_chain
Replaces(t) ==
    /\ At(t, "visit")
    /\ Cardinality(nodes) = threads[t].size
    /\ threads[t].todo = {}
    /\ IF threads[t].new_chain # <<>>
       THEN LET c == threads[t].new_chain
            IN /\ chain' = Decoded(c, Len(heap))
               /\ heap' = heap \o [i \in 1..Len(c) |-> c[i].transactions]
       ELSE UNCHANGED <<chain, heap>>
    /\ Go(t, [threads[t] EXCEPT !.at = "done", !.ret = 200,
                                !.new_chain = <<>>])
    /\ UNCHANGED <<current_transactions, nodes, fixed>>

\* every request served on its own thread, as app.run does
NextThreads ==
    \E t \in Threads :
        \/ Begin(t, {"mine", "new_transactions", "consensus",
                     "resister_new_node"}, "threaded")
        \/ MineSolves(t)
        \/ AddLoads(t)
        \/ AddAppends(t)
        \/ AddReturns(t)
        \/ NewBlockIndex(t)
        \/ NewBlockTransactions(t)
        \/ NewBlockPreviousHash(t)
        \/ NewBlockResets(t)
        \/ NewBlockAppends(t)
        \/ Registers(t)
        \/ Resolves(t)
        \/ ScanRaises(t)
        \/ Visits(t)
        \/ Replaces(t)

SpecThreads == InitThreads /\ [][NextThreads]_vars

\* the same handlers with one request served at a time
NextSerial ==
    \E t \in Threads :
        \/ Begin(t, {"mine", "new_transactions", "resister_new_node"},
                 "serial")
        \/ MineSolves(t)
        \/ AddLoads(t)
        \/ AddAppends(t)
        \/ AddReturns(t)
        \/ NewBlockIndex(t)
        \/ NewBlockTransactions(t)
        \/ NewBlockPreviousHash(t)
        \/ NewBlockResets(t)
        \/ NewBlockAppends(t)
        \/ Registers(t)

SpecSerial == InitThreads /\ [][NextSerial]_vars

\* -------------------------------------------- claims on the threaded server
Quiet == \A t \in Threads : ~Busy(t)
Finished(t, op) == threads[t].op = op /\ threads[t].at = "done"
OnlyRequests(ops) == \A t \in Threads : threads[t].op \in ops \cup {"idle"}

\* C11: with /mine requests served together, the new_block calls commit one
\* at a time: no two blocks get the same index and no index is skipped, so
\* the block at position k has index k in every state.
C11_MinesCommitInTurn ==
    OnlyRequests({"mine"}) => \A k \in 1..Len(chain) : chain[k].index = k

\* the list in place 0 is the pool, the list in place k > 0 that of block k
ListAt(k) ==
    IF k = 0 THEN heap[current_transactions] ELSE heap[chain[k].transactions]

\* where the transaction x is held: the place and the position in its list
Slots(x) ==
    {s \in (0..Len(chain)) \X (1..MaxThreads) :
        /\ s[2] <= Len(ListAt(s[1]))
        /\ ListAt(s[1])[s[2]] = x}

\* C12: with add_transaction and new_block running together, once the
\* requests are over every submitted transaction is held exactly once, in
\* one block or in the pool: none was dropped, none is in two blocks, twice
\* in one, or both in a block and in the pool. (The rewards are equal
\* values: as many are held as mines were served.)
C12_EachTransactionInOnePlace ==
    (Quiet /\ OnlyRequests({"mine", "new_transactions"})) =>
        /\ \A t \in Threads :
               Finished(t, "new_transactions") =>
                   Cardinality(Slots(threads[t].tx)) = 1
        /\ Cardinality(Slots(Reward)) =
               Cardinality({t \in Threads : Finished(t, "mine")})

\* C17: mine reads the tip's proof, searches without a lock and appends; in
\* every state reached with other mines and resolve_conflicts running
\* alongside, each block's proof is valid for the proof of the block before.
C17_ProofsStayValid ==
    \A i \in 2..Len(chain) : valid_proof(chain[i - 1].proof, chain[i].proof)

\* is some thread inside add_transaction?
InAddTransaction ==
    \E t \in Threads :
        threads[t].at \in {"add_load", "add_append", "add_return"}

\* C20: with the requests served one after another, a block in the chain
\* (its list of transactions included) is the same after every step of a
\* later add_transaction, resister_new_node or new_block, and a step of
\* add_transaction changes nothing but the list that is the pool.
C20_BlocksNeverChange ==
    [][/\ Len(chain') >= Len(chain)
       /\ \A k \in 1..Len(chain) :
              Deref(heap', chain'[k]) = Deref(heap, chain[k])
       /\ InAddTransaction =>
              /\ chain' = chain
              /\ nodes' = nodes
              /\ current_transactions' = current_transactions
              /\ Len(heap') = Len(heap)
              /\ \A l \in 1..Len(heap) :
                     l # current_transactions => heap'[l] = heap[l]]_vars

\* a transaction submitted after a block was mined: it is in the pool, the
\* pool is another list than the block's, and the block holds its reward
C20_Witness ==
    /\ Len(chain) = 2
    /\ Deref(heap, chain[2]).transactions = <<Reward>>
    /\ \E t \in Threads :
          /\ Finished(t, "new_transactions")
          /\ threads[t].ret = 3
          /\ heap[current_transactions] = <<threads[t].tx>>

====
